---- MODULE Spec2Model ----
(***************************************************************************)
(* A model of two parts of the Polaris kernel:                             *)
(*                                                                         *)
(*   - the thread lifecycle code (alloc_new_thread, thread_init,           *)
(*     thread_create, thread_block, thread_unblock, thread_exit,           *)
(*     thread_sleep), run by several processors that interleave at the     *)
(*     granularity of the accesses to shared memory;                       *)
(*   - the PCI configuration-space access code (pci_init, pci_read,        *)
(*     pci_write and the legacy / MCFG strategies behind them).            *)
(*                                                                         *)
(* The two parts share no state.  Spec runs the thread code and leaves     *)
(* the PCI state alone; SpecPci runs the PCI code and leaves the thread    *)
(* state alone.                                                            *)
(***************************************************************************)
EXTENDS Integers, Sequences, FiniteSets, TLC

(***************************************************************************)
(* Bounds of the thread model.                                             *)
(***************************************************************************)
\* operations (calls of the exposed thread functions) started in one run
MaxOps == 4
\* thread control blocks kmalloc can hand out: one call creates one thread
MaxThreads == MaxOps - 1

\* processors; the kernel context of processor c (its boot code, interrupt
\* handlers and scheduler loop) is the execution context -c
CPUS == {1, 2}
\* processes
Procs == {1}
\* kernel stacks the physical allocator can hand out at a time (fewer than
\* MaxThreads, so that pmm_allocz can fail)
Stacks == 1 .. (MaxThreads - 1)

Threads == 1 .. MaxThreads
KCtx == {0 - c : c \in CPUS}
Ctx == Threads \cup KCtx

\* inputs of the calls
Reasons == {"ON_SLEEP", "ON_WAIT"}
RetVals == {259}
SleepTicks == {1}
EntryAddrs == {4096}
EntryArgs == {7}
\* pages of one kernel stack (TSTACK_SIZE / PAGE_SIZE)
StackPages == 2

VARIABLES
    thr,              \* thread control blocks: struct thread, by slot
    ttable,           \* proc->ttable: [data, length] per process
    current_top_addr, \* proc->current_top_addr (in pages) per process
    pagemap,          \* proc->ppagemap: set of <<virtual page, physical page>>
    return_code,      \* proc->return_code per process
    torn_down,        \* process_exit() was called for the process
    nextid,           \* static uint32_t nextid
    thread_lock,      \* lock_t thread_lock: 0 when free, else the holder
    pmm_pool,         \* kernel stacks the physical allocator has free
    timer_tick,       \* the tick counter
    cur,              \* thread running on each processor, 0: kernel context
    iflag,            \* interrupt flag of each processor
    pc,               \* position of each execution context in its code
    lv,               \* local variables of each execution context
    halted,           \* PANIC was reached
    idlog,            \* history: the ids in the order they were assigned
    rc_writes,        \* history: writes of proc->return_code per process
    ops,              \* history: operations started
    \* ---- the PCI part
    internal_read,    \* the strategy pci_read dispatches to
    internal_write,   \* the strategy pci_write dispatches to
    mcfg_entries,     \* mcfg_vec_t mcfg_entries
    acpi_mcfg,        \* history: what acpi_find_sdt("MCFG", 0) returned
    cf8,              \* the word latched by the configuration-address port
    cfgspace,         \* configuration space behind the data port, by byte
    mem,              \* memory behind the MCFG windows, by physical byte
    pci_ret,          \* what the last pci_read returned
    pci_log,          \* the diagnostics the last call printed
    pci_acc,          \* the port and memory accesses the last call made
    pci_call,         \* history: the last call and its arguments
    pci_prev,         \* history: the call before it
    pci_calls         \* history: calls of pci_read / pci_write made

tvars == <<thr, ttable, current_top_addr, pagemap, return_code, torn_down,
           nextid, thread_lock, pmm_pool, timer_tick, cur, iflag, pc, lv,
           halted, idlog, rc_writes, ops>>
pvars == <<internal_read, internal_write, mcfg_entries, acpi_mcfg, cf8, cfgspace, mem,
           pci_ret, pci_log, pci_acc, pci_call, pci_prev, pci_calls>>
vars == <<tvars, pvars>>

(***************************************************************************)
(* Helpers.                                                                *)
(***************************************************************************)
Min(S) == CHOOSE m \in S : \A n \in S : m =< n

\* the execution context processor c runs
Exec(c) == IF cur[c] = 0 THEN 0 - c ELSE cur[c]
Running(x) == \E c \in CPUS : Exec(c) = x
CpuOf(x) == CHOOSE c \in CPUS : Exec(c) = x

\* a control block before kmalloc hands it out
ThrNone ==
    [state_t |-> "NONE", block_t |-> "NONE", tid |-> 0, killed |-> FALSE,
     target_tick |-> 0, return_val |-> 0, tstack |-> 0, rip |-> 0, rdi |-> 0,
     owner |-> 0]

\* the locals of an execution context between two calls
LvNone ==
    [op |-> "none", thrd |-> 0, proc |-> 0, addr |-> 0, args |-> 0, idx |-> 0,
     pd |-> FALSE, pl |-> FALSE, reason |-> "NOTHING", val |-> 0, tick |-> 0,
     insleep |-> FALSE, clean |-> FALSE]

FreeSlots == {t \in Threads : thr[t].owner = 0}

\* the threads an observer of the thread tables can see
InTable(p) == {ttable[p].data[i] : i \in 0 .. (ttable[p].length - 1)} \ {0}
Visible == UNION {InTable(p) : p \in Procs}

\* history kept in the locals, at a write of thread_block by thread t to its
\* own state or block reason: a call of thread_unblock on t that is under way
\* no longer follows the last thread_block of t
BlockTouch(l, t) ==
    [y \in Ctx |->
        IF y # t /\ pc[y] = "unblock_state" /\ l[y].thrd = t
        THEN [l[y] EXCEPT !.clean = FALSE]
        ELSE l[y]]

\* history kept in the locals, at a write of thread_unblock by context x to
\* the state or block reason of thread t: a thread_sleep of t that is under
\* way has been interfered with
UnblockTouch(l, t, x) ==
    [y \in Ctx |->
        IF y = t /\ y # x /\ l[y].op = "thread_sleep"
        THEN [l[y] EXCEPT !.clean = FALSE]
        ELSE l[y]]

(***************************************************************************)
(* The collaborators of the thread code.                                   *)
(***************************************************************************)
\* pmm_allocz: a free kernel stack, or 0 (NULL) when none is left
PmmAllocz(pool) == IF pool = {} THEN 0 ELSE Min(pool)

\* the i-th physical page of kernel stack s (s = 0: the page NULL + i)
PhysPage(s, i) == s * StackPages + i

\* the vmm_map loop: every page of the stack, mapped from virtual page va on
VmmMap(pm, va, s) ==
    {e \in pm : e[1] \notin va .. (va + StackPages - 1)}
        \cup {<<va + i, PhysPage(s, i)>> : i \in 0 .. (StackPages - 1)}

\* nextid++ that leaves the counter (mutant of NextId)
NextIdStuck(n) == n

\* nextid++ (a uint32_t, far from wrapping within MaxThreads)
NextId(n) == n + 1

\* a wake tick without the delay (mutant of WakeTick)
WakeTickNow(curr, n) == curr

\* targetick = curr_tick + sleep_ticks
WakeTick(curr, n) == curr + n

\* (uint8_t)thrd->return_val
ReturnCode(v) == v % 256

\* the comparison made with the last element (mutant of IsMainThread)
IsLastThread(p, t) ==
    ttable[p].length > 0 /\ ttable[p].data[ttable[p].length - 1] = t

\* thrd == running_proc()->ttable.data[0]
IsMainThread(p, t) == ttable[p].data[0] = t

\* a block reason left in place (mutant of UnblockedReason)
UnblockedReasonKept == "ON_WAIT"

\* the values thread_unblock stores
UnblockedReason == "NOTHING"
UnblockedState == "READY"

(***************************************************************************)
(* The PCI part.  A 32-bit word whose bit 31 may be set is the record      *)
(* [enable, lo]: bit 31 and bits 0..30.  Values written are below 2^31.    *)
(***************************************************************************)
\* calls of pci_read / pci_write in one run
MaxPciCalls == 2

\* sizeof(struct mcfg), sizeof(struct mcfg_entry)
SizeofMcfg == 44
SizeofEntry == 16
\* the configuration-address port 0xCF8 and the data port 0xCFC
PortAddr == 3320
PortData == 3324

\* one access of a call: kind "in" / "out" of n bytes at a port, "load" /
\* "store" of n bytes at a physical address
Access(kind, at, n) == [kind |-> kind, at |-> at, n |-> n]

RECURSIVE BitAnd(_, _)
BitAnd(a, b) ==
    IF a = 0 \/ b = 0 THEN 0
    ELSE (IF a % 2 = 1 /\ b % 2 = 1 THEN 1 ELSE 0) + 2 * BitAnd(a \div 2, b \div 2)

RECURSIVE BitOr(_, _)
BitOr(a, b) ==
    IF a = 0 THEN b
    ELSE IF b = 0 THEN a
    ELSE (IF a % 2 = 1 \/ b % 2 = 1 THEN 1 ELSE 0) + 2 * BitOr(a \div 2, b \div 2)

RECURSIVE Pow256(_)
Pow256(k) == IF k = 0 THEN 1 ELSE 256 * Pow256(k - 1)

\* byte k of v, least significant first
ByteOf(v, k) == (v \div Pow256(k)) % 256

\* a store of the n low bytes of v at byte address a, and the load back
Store(m, a, n, v) ==
    [b \in DOMAIN m \cup (a .. (a + n - 1)) |->
        IF b \in a .. (a + n - 1) THEN ByteOf(v, b - a) ELSE m[b]]
LoadByte(m, a) == IF a \in DOMAIN m THEN m[a] ELSE 0
RECURSIVE Load(_, _, _)
Load(m, a, n) ==
    IF n = 0 THEN 0 ELSE LoadByte(m, a) + 256 * Load(m, a + 1, n - 1)

\* the inputs: <<segment, bus, slot, function>>, offsets, sizes, values
PciDevices == {<<0, 1, 1, 1>>, <<1, 0, 0, 0>>, <<0, 2, 0, 1>>}
PciOffsets == {0, 7, 4096}
PciSizes == {1, 2, 3, 4}
PciValues == {305419896}

\* what acpi_find_sdt("MCFG", 0) can return: NULL, or a table with its
\* header length and its entries
McfgEntry1 == [seg |-> 0, start_bus_number |-> 0, end_bus_number |-> 1,
               base |-> 268435456]
McfgEntry2 == [seg |-> 1, start_bus_number |-> 0, end_bus_number |-> 0,
               base |-> 536870912]
FirmwareTables ==
    {[present |-> FALSE, length |-> 0, entries |-> <<>>],
     [present |-> TRUE, length |-> SizeofMcfg, entries |-> <<>>],
     [present |-> TRUE, length |-> SizeofMcfg + SizeofEntry,
      entries |-> <<McfgEntry1>>],
     [present |-> TRUE, length |-> SizeofMcfg + SizeofEntry + 8,
      entries |-> <<McfgEntry1>>],
     [present |-> TRUE, length |-> SizeofMcfg + 2 * SizeofEntry,
      entries |-> <<McfgEntry1, McfgEntry2>>]}

NoCall == [op |-> "none", dev |-> <<0, 0, 0, 0>>, offset |-> 0, size |-> 0,
           value |-> 0]

InitPci ==
    /\ internal_read = "unset"
    /\ internal_write = "unset"
    /\ mcfg_entries = <<>>
    /\ acpi_mcfg = [present |-> FALSE, length |-> 0, entries |-> <<>>]
    /\ cf8 = [enable |-> 0, lo |-> 0]
    /\ cfgspace = <<>>
    /\ mem = <<>>
    /\ pci_ret = 0
    /\ pci_log = <<>>
    /\ pci_acc = <<>>
    /\ pci_call = NoCall
    /\ pci_prev = NoCall
    /\ pci_calls = 0

\* the ports: the address port latches a word; with the enable bit latched,
\* the data port and the three ports behind it are the bytes of the
\* configuration dword the latched word selects
DataByte(w, port) == (w.lo - (w.lo % 4)) + (port - PortData)
PortIn(w, cs, port, n) == IF w.enable = 1 THEN Load(cs, DataByte(w, port), n) ELSE 0
PortOut(w, cs, port, n, v) ==
    IF w.enable = 1 THEN Store(cs, DataByte(w, port), n, v) ELSE cs

\* an address word with the offset as given (mutant of make_pci_address)
make_pci_address_raw(bus, slot, function, offset) ==
    [enable |-> 1,
     lo |-> BitOr(BitOr(BitOr(bus * 65536, slot * 2048), function * 256),
                  offset)]

make_pci_address(bus, slot, function, offset) ==
    [enable |-> 1,
     lo |-> BitOr(BitOr(BitOr(bus * 65536, slot * 2048), function * 256),
                  BitAnd(offset, 65532))]

\* legacy_pci_read: [ret, log], after the address word is latched
legacy_pci_read(cs, bus, slot, function, offset, access_size) ==
    LET w == make_pci_address(bus, slot, function, offset)
        latch == Access("out", PortAddr, 4)
    IN  CASE access_size = 1 ->
               [ret |-> PortIn(w, cs, PortData + BitAnd(offset, 3), 1), log |-> <<>>,
                acc |-> <<latch, Access("in", PortData + BitAnd(offset, 3), 1)>>]
          [] access_size = 2 ->
               [ret |-> PortIn(w, cs, PortData + BitAnd(offset, 2), 2), log |-> <<>>,
                acc |-> <<latch, Access("in", PortData + BitAnd(offset, 2), 2)>>]
          [] access_size = 4 ->
               [ret |-> PortIn(w, cs, PortData, 4), log |-> <<>>,
                acc |-> <<latch, Access("in", PortData, 4)>>]
          [] OTHER -> [ret |-> 0, log |-> <<"unknown access size">>,
                       acc |-> <<latch>>]

\* legacy_pci_write that stores a byte for an unknown size (mutant of
\* legacy_pci_write)
legacy_pci_write_any(cs, bus, slot, function, offset, value, access_size) ==
    LET w == make_pci_address(bus, slot, function, offset)
    IN  [cs |-> PortOut(w, cs, PortData + BitAnd(offset, 3), 1, value),
         log |-> IF access_size \in {1, 2, 4} THEN <<>>
                 ELSE <<"unknown access size">>,
         acc |-> <<Access("out", PortAddr, 4),
                   Access("out", PortData + BitAnd(offset, 3), 1)>>]

\* legacy_pci_write: [cs, log], after the address word is latched
legacy_pci_write(cs, bus, slot, function, offset, value, access_size) ==
    LET w == make_pci_address(bus, slot, function, offset)
        latch == Access("out", PortAddr, 4)
    IN  CASE access_size = 1 ->
               [cs |-> PortOut(w, cs, PortData + BitAnd(offset, 3), 1, value),
                log |-> <<>>,
                acc |-> <<latch, Access("out", PortData + BitAnd(offset, 3), 1)>>]
          [] access_size = 2 ->
               [cs |-> PortOut(w, cs, PortData + BitAnd(offset, 2), 2, value),
                log |-> <<>>,
                acc |-> <<latch, Access("out", PortData + BitAnd(offset, 2), 2)>>]
          [] access_size = 4 ->
               [cs |-> PortOut(w, cs, PortData, 4, value), log |-> <<>>,
                acc |-> <<latch, Access("out", PortData, 4)>>]
          [] OTHER -> [cs |-> cs, log |-> <<"unknown access size">>,
                       acc |-> <<latch>>]

\* a match on the bus range alone (mutant of McfgMatch)
McfgMatchAnySeg(entry, seg, bus) ==
    /\ bus >= entry.start_bus_number
    /\ bus =< entry.end_bus_number

\* entry matches (seg, bus)
McfgMatch(entry, seg, bus) ==
    /\ entry.seg = seg
    /\ bus >= entry.start_bus_number
    /\ bus =< entry.end_bus_number

\* the device's window in the entry
McfgDevice(entry, bus, slot, function) ==
    entry.base + BitOr(BitOr((bus - entry.start_bus_number) * 1048576,
                             slot * 32768), function * 4096)

\* the physical address mcfg_pci_read accesses (MEM_PHYS_OFFSET maps
\* physical memory: the access lands on this physical byte)
McfgReadAddr(entry, bus, slot, function, offset) ==
    BitOr(McfgDevice(entry, bus, slot, function), offset)

\* the physical address mcfg_pci_write accesses
McfgWriteAddr(entry, bus, slot, function, offset) ==
    McfgDevice(entry, bus, slot, function) + offset

\* mcfg_pci_read from entry i on: [ret, log]
RECURSIVE mcfg_pci_read(_, _, _, _, _, _, _, _, _)
mcfg_pci_read(es, m, i, seg, bus, slot, function, offset, access_size) ==
    IF i > Len(es)
    THEN [ret |-> 0, log |-> <<"read from nonexistent device">>, acc |-> <<>>]
    ELSE IF McfgMatch(es[i], seg, bus)
         THEN IF access_size \in {1, 2, 4}
              THEN [ret |-> Load(m, McfgReadAddr(es[i], bus, slot, function, offset),
                                 access_size),
                    log |-> <<>>,
                    acc |-> <<Access("load",
                                     McfgReadAddr(es[i], bus, slot, function, offset),
                                     access_size)>>]
              ELSE LET r == mcfg_pci_read(es, m, i + 1, seg, bus, slot, function,
                                          offset, access_size)
                   IN  [ret |-> r.ret, log |-> <<"unknown access size">> \o r.log,
                        acc |-> r.acc]
         ELSE mcfg_pci_read(es, m, i + 1, seg, bus, slot, function, offset,
                            access_size)

\* mcfg_pci_write from entry i on: [m, log]
RECURSIVE mcfg_pci_write(_, _, _, _, _, _, _, _, _, _)
mcfg_pci_write(es, m, i, seg, bus, slot, function, offset, value, access_size) ==
    IF i > Len(es)
    THEN [m |-> m, log |-> <<"write to nonexistent device">>, acc |-> <<>>]
    ELSE IF McfgMatch(es[i], seg, bus)
         THEN IF access_size \in {1, 2, 4}
              THEN [m |-> Store(m, McfgWriteAddr(es[i], bus, slot, function, offset),
                                access_size, value),
                    log |-> <<>>,
                    acc |-> <<Access("store",
                                     McfgWriteAddr(es[i], bus, slot, function, offset),
                                     access_size)>>]
              ELSE [m |-> m, log |-> <<"unknown access size">>, acc |-> <<>>]
         ELSE mcfg_pci_write(es, m, i + 1, seg, bus, slot, function, offset, value,
                             access_size)

\* a count that leaves the last entry out (mutant of McfgCount)
McfgCountShort(length) == (length - SizeofMcfg) \div SizeofEntry - 1

\* the entries pci_init loads from a table of this header length
McfgCount(length) == (length - SizeofMcfg) \div SizeofEntry

\* pci_init, once at boot
PciInit ==
    /\ internal_read = "unset"
    /\ \E mcfg \in FirmwareTables :
        /\ acpi_mcfg' = mcfg
        /\ IF ~mcfg.present \/ mcfg.length < SizeofMcfg + SizeofEntry
           THEN /\ internal_read' = "legacy"
                /\ internal_write' = "legacy"
                /\ UNCHANGED mcfg_entries
           ELSE /\ mcfg_entries' = SubSeq(mcfg.entries, 1, McfgCount(mcfg.length))
                /\ internal_read' = "mcfg"
                /\ internal_write' = "mcfg"
    /\ UNCHANGED <<cf8, cfgspace, mem, pci_ret, pci_log, pci_acc, pci_call,
                   pci_prev, pci_calls>>

\* pci_read(seg, bus, slot, function, offset, access_size)
PciRead ==
    /\ internal_read # "unset"
    /\ pci_calls < MaxPciCalls
    /\ \E d \in PciDevices, offset \in PciOffsets, size \in PciSizes :
        /\ pci_call' = [op |-> "read", dev |-> d, offset |-> offset,
                        size |-> size, value |-> 0]
        /\ IF internal_read = "legacy"
           THEN LET r == legacy_pci_read(cfgspace, d[2], d[3], d[4], offset, size)
                IN  /\ cf8' = make_pci_address(d[2], d[3], d[4], offset)
                    /\ pci_ret' = r.ret
                    /\ pci_log' = r.log
                    /\ pci_acc' = r.acc
           ELSE LET r == mcfg_pci_read(mcfg_entries, mem, 1, d[1], d[2], d[3], d[4],
                                       offset, size)
                IN  /\ pci_ret' = r.ret
                    /\ pci_log' = r.log
                    /\ pci_acc' = r.acc
                    /\ UNCHANGED cf8
    /\ pci_prev' = pci_call
    /\ pci_calls' = pci_calls + 1
    /\ UNCHANGED <<internal_read, internal_write, mcfg_entries, acpi_mcfg,
                   cfgspace, mem>>

\* pci_write(seg, bus, slot, function, offset, value, access_size)
PciWrite ==
    /\ internal_write # "unset"
    /\ pci_calls < MaxPciCalls
    /\ \E d \in PciDevices, offset \in PciOffsets, size \in PciSizes,
          value \in PciValues :
        /\ pci_call' = [op |-> "write", dev |-> d, offset |-> offset,
                        size |-> size, value |-> value]
        /\ IF internal_write = "legacy"
           THEN LET r == legacy_pci_write(cfgspace, d[2], d[3], d[4], offset, value,
                                          size)
                IN  /\ cf8' = make_pci_address(d[2], d[3], d[4], offset)
                    /\ cfgspace' = r.cs
                    /\ pci_log' = r.log
                    /\ pci_acc' = r.acc
                    /\ UNCHANGED mem
           ELSE LET r == mcfg_pci_write(mcfg_entries, mem, 1, d[1], d[2], d[3], d[4],
                                        offset, value, size)
                IN  /\ mem' = r.m
                    /\ pci_log' = r.log
                    /\ pci_acc' = r.acc
                    /\ UNCHANGED <<cf8, cfgspace>>
    /\ pci_prev' = pci_call
    /\ pci_calls' = pci_calls + 1
    /\ UNCHANGED <<internal_read, internal_write, mcfg_entries, acpi_mcfg,
                   pci_ret>>

(***************************************************************************)
(* Initial state: no thread exists, every processor runs its kernel        *)
(* context, which is between two calls.                                    *)
(***************************************************************************)
InitThreads ==
    /\ thr = [t \in Threads |-> ThrNone]
    /\ ttable = [p \in Procs |->
                    [data |-> [i \in 0 .. (MaxThreads - 1) |-> 0], length |-> 0]]
    /\ current_top_addr = [p \in Procs |-> 16 * p]
    /\ pagemap = [p \in Procs |-> {}]
    /\ return_code = [p \in Procs |-> 0]
    /\ torn_down = [p \in Procs |-> FALSE]
    /\ nextid = 1
    /\ thread_lock = 0
    /\ pmm_pool = Stacks
    /\ timer_tick = 0
    /\ cur = [c \in CPUS |-> 0]
    /\ iflag = [c \in CPUS |-> TRUE]
    /\ pc = [x \in Ctx |-> "idle"]
    /\ lv = [x \in Ctx |-> LvNone]
    /\ halted = FALSE
    /\ idlog = <<>>
    /\ rc_writes = [p \in Procs |-> 0]
    /\ ops = 0

\* x can start a call
CanCall(x) == ~halted /\ Running(x) /\ pc[x] = "idle" /\ ops < MaxOps
\* x is at position l of a call
At(x, l) == ~halted /\ Running(x) /\ pc[x] = l

(***************************************************************************)
(* alloc_new_thread, as called by thread_init and thread_create.           *)
(***************************************************************************)
\* kmalloc (the block comes uninitialised) and LOCK(thread_lock); then, with
\* the lock held: pmm_allocz, the vmm_map loop, the NULL check, and the state,
\* the block reason and the id of the new thread
AllocCall(x, p, op, addr, args) ==
    /\ CanCall(x)
    /\ FreeSlots # {}
    /\ thread_lock = 0
    /\ thread_lock' = x
    /\ ops' = ops + 1
    /\ lv' = [lv EXCEPT ![x] = [LvNone EXCEPT !.op = op, !.thrd = Min(FreeSlots),
                                   !.proc = p, !.addr = addr, !.args = args]]
    /\ LET t == Min(FreeSlots)
           s == PmmAllocz(pmm_pool)
       IN  /\ pagemap' = [pagemap EXCEPT ![p] = VmmMap(@, current_top_addr[p], s)]
           /\ \E k \in BOOLEAN :
                thr' = [thr EXCEPT ![t] =
                          IF s = 0
                          THEN [ThrNone EXCEPT !.owner = p, !.killed = k]
                          ELSE [ThrNone EXCEPT !.owner = p, !.killed = k,
                                               !.tstack = s,
                                               !.state_t = "INITIAL",
                                               !.block_t = "NOTHING",
                                               !.tid = nextid]]
           /\ IF s = 0
              THEN /\ halted' = TRUE
                   /\ pc' = [pc EXCEPT ![x] = "panic"]
                   /\ UNCHANGED <<nextid, idlog, pmm_pool>>
              ELSE /\ nextid' = NextId(nextid)
                   /\ idlog' = Append(idlog, nextid)
                   /\ pmm_pool' = pmm_pool \ {s}
                   /\ pc' = [pc EXCEPT ![x] = "alloc_unlock"]
                   /\ UNCHANGED halted
    /\ UNCHANGED <<ttable, current_top_addr, return_code, torn_down, timer_tick,
                   cur, iflag, rc_writes>>

\* thread_init(addr, args, proc): any context, any process
ThreadInitCall(x) ==
    \E p \in Procs, addr \in EntryAddrs, args \in EntryArgs :
        AllocCall(x, p, "thread_init", addr, args)

\* thread_create(addr, args): a thread, for running_proc()
ThreadCreateCall(x) ==
    /\ x \in Threads
    /\ \E addr \in EntryAddrs, args \in EntryArgs :
        AllocCall(x, thr[x].owner, "thread_create", addr, args)

\* UNLOCK(thread_lock), the zeroed context, return; then the caller sets
\* rip, rdi and killed
AllocUnlock(x) ==
    /\ At(x, "alloc_unlock")
    /\ thread_lock' = 0
    /\ thr' = [thr EXCEPT ![lv[x].thrd].rip = lv[x].addr,
                          ![lv[x].thrd].rdi = lv[x].args,
                          ![lv[x].thrd].killed = FALSE]
    /\ pc' = [pc EXCEPT ![x] = "ready_lock"]
    /\ UNCHANGED <<ttable, current_top_addr, pagemap, return_code, torn_down,
                   nextid, pmm_pool, timer_tick, cur, iflag, lv, halted, idlog,
                   rc_writes, ops>>

(***************************************************************************)
(* The rest of thread_init / thread_create.                                *)
(***************************************************************************)
\* a thread published as it left alloc_new_thread (mutant of CreatedState)
CreatedStateInitial == "INITIAL"

\* the state thread_init / thread_create store before the thread is appended
CreatedState == "READY"

\* LOCK(thread_lock); thrd->state_t = READY
SetReady(x) ==
    /\ At(x, "ready_lock")
    /\ thread_lock = 0
    /\ thread_lock' = x
    /\ thr' = [thr EXCEPT ![lv[x].thrd].state_t = CreatedState]
    /\ pc' = [pc EXCEPT ![x] = "ready_unlock"]
    /\ UNCHANGED <<ttable, current_top_addr, pagemap, return_code, torn_down,
                   nextid, pmm_pool, timer_tick, cur, iflag, lv, halted, idlog,
                   rc_writes, ops>>

\* UNLOCK(thread_lock)
ReadyUnlock(x) ==
    /\ At(x, "ready_unlock")
    /\ thread_lock' = 0
    /\ pc' = [pc EXCEPT ![x] = "push_read"]
    /\ UNCHANGED <<thr, ttable, current_top_addr, pagemap, return_code, torn_down,
                   nextid, pmm_pool, timer_tick, cur, iflag, lv, halted, idlog,
                   rc_writes, ops>>

\* vec_push(&proc->ttable, thrd) is data[length++] = thrd, with no lock held:
\* the read of length, then the store of the element and the store of the
\* new length, in either order
PushRead(x) ==
    /\ At(x, "push_read")
    /\ lv' = [lv EXCEPT ![x].idx = ttable[lv[x].proc].length]
    /\ pc' = [pc EXCEPT ![x] = "push_store"]
    /\ UNCHANGED <<thr, ttable, current_top_addr, pagemap, return_code, torn_down,
                   nextid, thread_lock, pmm_pool, timer_tick, cur, iflag, halted,
                   idlog, rc_writes, ops>>

\* the call returns once both stores are done
PushDone(x, pd, pl) ==
    IF pd /\ pl
    THEN /\ pc' = [pc EXCEPT ![x] = "idle"]
         /\ lv' = [lv EXCEPT ![x] = LvNone]
    ELSE /\ pc' = pc
         /\ lv' = [lv EXCEPT ![x].pd = pd, ![x].pl = pl]

PushData(x) ==
    /\ At(x, "push_store")
    /\ ~lv[x].pd
    /\ ttable' = [ttable EXCEPT ![lv[x].proc].data[lv[x].idx] = lv[x].thrd]
    /\ PushDone(x, TRUE, lv[x].pl)
    /\ UNCHANGED <<thr, current_top_addr, pagemap, return_code, torn_down, nextid,
                   thread_lock, pmm_pool, timer_tick, cur, iflag, halted, idlog,
                   rc_writes, ops>>

PushLen(x) ==
    /\ At(x, "push_store")
    /\ ~lv[x].pl
    /\ ttable' = [ttable EXCEPT ![lv[x].proc].length = lv[x].idx + 1]
    /\ PushDone(x, lv[x].pd, TRUE)
    /\ UNCHANGED <<thr, current_top_addr, pagemap, return_code, torn_down, nextid,
                   thread_lock, pmm_pool, timer_tick, cur, iflag, halted, idlog,
                   rc_writes, ops>>

(***************************************************************************)
(* thread_block, thread_unblock, thread_sleep, thread_exit.                *)
(***************************************************************************)
\* thread_block(reason), called directly by the running thread:
\* cli; thrd->block_t = reason
ThreadBlockCall(x) ==
    /\ CanCall(x)
    /\ x \in Threads
    /\ \E r \in Reasons :
        /\ thr' = [thr EXCEPT ![x].block_t = r]
        /\ lv' = BlockTouch([lv EXCEPT ![x] = [LvNone EXCEPT !.op = "thread_block",
                                                  !.reason = r]], x)
    /\ iflag' = [iflag EXCEPT ![CpuOf(x)] = FALSE]
    /\ pc' = [pc EXCEPT ![x] = "block_state"]
    /\ ops' = ops + 1
    /\ UNCHANGED <<ttable, current_top_addr, pagemap, return_code, torn_down,
                   nextid, thread_lock, pmm_pool, timer_tick, cur, halted, idlog,
                   rc_writes>>

\* thread_sleep(sleep_ticks): the tick read, the wake tick, LOCK(thread_lock);
\* then thread_block(ON_SLEEP): cli; thrd->block_t = reason
ThreadSleepCall(x) ==
    /\ CanCall(x)
    /\ x \in Threads
    /\ thread_lock = 0
    /\ thread_lock' = x
    /\ \E n \in SleepTicks :
        /\ thr' = [thr EXCEPT ![x].target_tick = WakeTick(timer_tick, n),
                              ![x].block_t = "ON_SLEEP"]
        /\ lv' = BlockTouch([lv EXCEPT ![x] =
                                [LvNone EXCEPT !.op = "thread_sleep",
                                               !.reason = "ON_SLEEP", !.val = n,
                                               !.tick = timer_tick,
                                               !.insleep = TRUE,
                                               !.clean = TRUE]], x)
    /\ iflag' = [iflag EXCEPT ![CpuOf(x)] = FALSE]
    /\ pc' = [pc EXCEPT ![x] = "block_state"]
    /\ ops' = ops + 1
    /\ UNCHANGED <<ttable, current_top_addr, pagemap, return_code, torn_down,
                   nextid, pmm_pool, timer_tick, cur, halted, idlog, rc_writes>>

\* thrd->state_t = BLOCKED
BlockState(x) ==
    /\ At(x, "block_state")
    /\ thr' = [thr EXCEPT ![x].state_t = "BLOCKED"]
    /\ pc' = [pc EXCEPT ![x] = "block_yield"]
    /\ lv' = BlockTouch(lv, x)
    /\ UNCHANGED <<ttable, current_top_addr, pagemap, return_code, torn_down,
                   nextid, thread_lock, pmm_pool, timer_tick, cur, iflag, halted,
                   idlog, rc_writes, ops>>

\* yield_to_scheduler(): the processor goes back to its kernel context; the
\* thread resumes behind the call once it is scheduled again
YieldTo(x, resume) ==
    /\ cur' = [cur EXCEPT ![CpuOf(x)] = 0]
    /\ pc' = [pc EXCEPT ![x] = resume]

BlockYield(x) ==
    /\ At(x, "block_yield")
    /\ YieldTo(x, IF lv[x].insleep THEN "sleep_unlock" ELSE "idle")
    /\ lv' = [lv EXCEPT ![x] = LvNone]
    /\ UNCHANGED <<thr, ttable, current_top_addr, pagemap, return_code, torn_down,
                   nextid, thread_lock, pmm_pool, timer_tick, iflag, halted,
                   idlog, rc_writes, ops>>

\* UNLOCK(thread_lock), once thread_block has returned into thread_sleep
SleepUnlock(x) ==
    /\ At(x, "sleep_unlock")
    /\ thread_lock' = 0
    /\ pc' = [pc EXCEPT ![x] = "idle"]
    /\ UNCHANGED <<thr, ttable, current_top_addr, pagemap, return_code, torn_down,
                   nextid, pmm_pool, timer_tick, cur, iflag, lv, halted, idlog,
                   rc_writes, ops>>

\* thread_unblock(thrd), by any context, on any thread it can see:
\* cli; thrd->block_t = NOTHING
ThreadUnblockCall(x) ==
    /\ CanCall(x)
    /\ \E t \in Visible :
        /\ thr' = [thr EXCEPT ![t].block_t = UnblockedReason]
        /\ lv' = UnblockTouch([lv EXCEPT ![x] =
                                  [LvNone EXCEPT !.op = "thread_unblock",
                                                 !.thrd = t,
                                                 !.reason = thr[t].block_t,
                                                 !.clean =
                                                     (thr[t].state_t = "BLOCKED"
                                                      /\ ~Running(t))]],
                               t, x)
    /\ iflag' = [iflag EXCEPT ![CpuOf(x)] = FALSE]
    /\ pc' = [pc EXCEPT ![x] = "unblock_state"]
    /\ ops' = ops + 1
    /\ UNCHANGED <<ttable, current_top_addr, pagemap, return_code, torn_down,
                   nextid, thread_lock, pmm_pool, timer_tick, cur, halted, idlog,
                   rc_writes>>

\* thrd->state_t = READY; return (the locals keep the record of the call)
UnblockState(x) ==
    /\ At(x, "unblock_state")
    /\ thr' = [thr EXCEPT ![lv[x].thrd].state_t = UnblockedState]
    /\ pc' = [pc EXCEPT ![x] = "idle"]
    /\ lv' = UnblockTouch(lv, lv[x].thrd, x)
    /\ UNCHANGED <<ttable, current_top_addr, pagemap, return_code, torn_down,
                   nextid, thread_lock, pmm_pool, timer_tick, cur, iflag, halted,
                   idlog, rc_writes, ops>>

\* thread_exit(return_val): the unblock of a thread blocked ON_WAIT, then
\* thrd->state_t = TERMINATED
ThreadExitCall(x) ==
    /\ CanCall(x)
    /\ x \in Threads
    /\ \E v \in RetVals :
        lv' = [lv EXCEPT ![x] = [LvNone EXCEPT !.op = "thread_exit", !.val = v]]
    /\ thr' = [thr EXCEPT
                 ![x].block_t =
                     IF thr[x].state_t = "BLOCKED" /\ thr[x].block_t = "ON_WAIT"
                     THEN UnblockedReason ELSE @,
                 ![x].state_t = "TERMINATED"]
    /\ pc' = [pc EXCEPT ![x] = "exit_free"]
    /\ ops' = ops + 1
    /\ UNCHANGED <<ttable, current_top_addr, pagemap, return_code, torn_down,
                   nextid, thread_lock, pmm_pool, timer_tick, cur, iflag, halted,
                   idlog, rc_writes>>

\* thrd->return_val = return_val; pmm_free(thrd->tstack, ...)
ExitFree(x) ==
    /\ At(x, "exit_free")
    /\ thr' = [thr EXCEPT ![x].return_val = lv[x].val]
    /\ pmm_pool' = pmm_pool \cup {thr[x].tstack}
    /\ pc' = [pc EXCEPT ![x] = "exit_main"]
    /\ UNCHANGED <<ttable, current_top_addr, pagemap, return_code, torn_down,
                   nextid, thread_lock, timer_tick, cur, iflag, lv, halted, idlog,
                   rc_writes, ops>>

\* the main thread's return code and process_exit(); yield_to_scheduler()
ExitMain(x) ==
    /\ At(x, "exit_main")
    /\ LET p == thr[x].owner
       IN  IF IsMainThread(p, x)
           THEN /\ return_code' = [return_code EXCEPT
                                     ![p] = ReturnCode(thr[x].return_val)]
                /\ torn_down' = [torn_down EXCEPT ![p] = TRUE]
                /\ rc_writes' = [rc_writes EXCEPT ![p] = @ + 1]
           ELSE UNCHANGED <<return_code, torn_down, rc_writes>>
    /\ YieldTo(x, "idle")
    /\ lv' = [lv EXCEPT ![x] = LvNone]
    /\ UNCHANGED <<thr, ttable, current_top_addr, pagemap, nextid, thread_lock,
                   pmm_pool, timer_tick, iflag, halted, idlog, ops>>

(***************************************************************************)
(* The scheduler and the timer, which the thread code only calls.          *)
(***************************************************************************)
\* the scheduler of processor c, in its kernel context between two calls,
\* selects a READY thread of some thread table and runs it
Schedule(c) ==
    /\ ~halted
    /\ cur[c] = 0
    /\ pc[0 - c] = "idle"
    /\ \E t \in Visible :
        /\ thr[t].state_t = "READY"
        /\ ~Running(t)
        /\ thr' = [thr EXCEPT ![t].state_t = "RUNNING"]
        /\ cur' = [cur EXCEPT ![c] = t]
    /\ iflag' = [iflag EXCEPT ![c] = TRUE]
    /\ UNCHANGED <<ttable, current_top_addr, pagemap, return_code, torn_down,
                   nextid, thread_lock, pmm_pool, timer_tick, pc, lv, halted,
                   idlog, rc_writes, ops>>

\* a timer interrupt on processor c, with interrupts enabled, takes the
\* processor from its thread
Preempt(c) ==
    /\ ~halted
    /\ cur[c] # 0
    /\ iflag[c]
    /\ thr' = [thr EXCEPT ![cur[c]].state_t = IF @ = "RUNNING" THEN "READY" ELSE @]
    /\ cur' = [cur EXCEPT ![c] = 0]
    /\ UNCHANGED <<ttable, current_top_addr, pagemap, return_code, torn_down,
                   nextid, thread_lock, pmm_pool, timer_tick, iflag, pc, lv,
                   halted, idlog, rc_writes, ops>>

\* the tick counter advances (followed up to the latest wake tick set)
Tick ==
    /\ ~halted
    /\ \E t \in Threads : timer_tick < thr[t].target_tick
    /\ timer_tick' = timer_tick + 1
    /\ UNCHANGED <<thr, ttable, current_top_addr, pagemap, return_code, torn_down,
                   nextid, thread_lock, pmm_pool, cur, iflag, pc, lv, halted,
                   idlog, rc_writes, ops>>

(***************************************************************************)
(* The thread specification.                                               *)
(***************************************************************************)
Init == InitThreads /\ InitPci

Next ==
    \/ \E x \in Ctx : ThreadInitCall(x) /\ UNCHANGED pvars
    \/ \E x \in Ctx : ThreadCreateCall(x) /\ UNCHANGED pvars
    \/ \E x \in Ctx : AllocUnlock(x) /\ UNCHANGED pvars
    \/ \E x \in Ctx : SetReady(x) /\ UNCHANGED pvars
    \/ \E x \in Ctx : ReadyUnlock(x) /\ UNCHANGED pvars
    \/ \E x \in Ctx : PushRead(x) /\ UNCHANGED pvars
    \/ \E x \in Ctx : PushData(x) /\ UNCHANGED pvars
    \/ \E x \in Ctx : PushLen(x) /\ UNCHANGED pvars
    \/ \E x \in Ctx : ThreadBlockCall(x) /\ UNCHANGED pvars
    \/ \E x \in Ctx : ThreadSleepCall(x) /\ UNCHANGED pvars
    \/ \E x \in Ctx : BlockState(x) /\ UNCHANGED pvars
    \/ \E x \in Ctx : BlockYield(x) /\ UNCHANGED pvars
    \/ \E x \in Ctx : SleepUnlock(x) /\ UNCHANGED pvars
    \/ \E x \in Ctx : ThreadUnblockCall(x) /\ UNCHANGED pvars
    \/ \E x \in Ctx : UnblockState(x) /\ UNCHANGED pvars
    \/ \E x \in Ctx : ThreadExitCall(x) /\ UNCHANGED pvars
    \/ \E x \in Ctx : ExitFree(x) /\ UNCHANGED pvars
    \/ \E x \in Ctx : ExitMain(x) /\ UNCHANGED pvars
    \/ \E c \in CPUS : Schedule(c) /\ UNCHANGED pvars
    \/ \E c \in CPUS : Preempt(c) /\ UNCHANGED pvars
    \/ Tick /\ UNCHANGED pvars

Spec == Init /\ [][Next]_vars

(***************************************************************************)
(* The PCI specification.                                                  *)
(***************************************************************************)
NextPci ==
    \/ PciInit /\ UNCHANGED tvars
    \/ PciRead /\ UNCHANGED tvars
    \/ PciWrite /\ UNCHANGED tvars

SpecPci == Init /\ [][NextPci]_vars

(***************************************************************************)
(* Claims about the thread code, checked under Spec.                       *)
(***************************************************************************)
\* a step of the thread code by context x (the scheduler and the timer move
\* no context's position)
StepOf(x) == pc'[x] # pc[x]
\* the step writes a new lifecycle state or block reason to thread t
LifecycleWrite(t) ==
    \/ thr'[t].state_t # thr[t].state_t
    \/ thr'[t].block_t # thr[t].block_t

\* C1: every write of a thread's lifecycle state or block reason by the
\* thread code (alloc_new_thread, thread_init, thread_create, thread_block,
\* thread_unblock, thread_exit, thread_sleep) is made by a context that holds
\* the global thread lock at the write.
C1_WritesUnderLock ==
    [][\A x \in Ctx, t \in Threads :
          StepOf(x) /\ LifecycleWrite(t) => thread_lock' = x]_vars

\* C2: TERMINATED is absorbing: a thread whose state is TERMINATED keeps that
\* state in every later step, and no processor starts to run it.
C2_TerminatedAbsorbing ==
    [][\A t \in Threads :
          thr[t].state_t = "TERMINATED" =>
              /\ thr'[t].state_t = "TERMINATED"
              /\ \A c \in CPUS : cur'[c] = t => cur[c] = t]_vars

\* C3: the ids assigned are strictly increasing in the order of assignment,
\* and the threads that hold an id hold pairwise distinct ids, the ones
\* assigned.
C3_IdsIncreasing ==
    /\ \A i, j \in DOMAIN idlog : i < j => idlog[i] < idlog[j]
    /\ \A t, u \in Threads :
          t # u /\ thr[t].tid # 0 /\ thr[u].tid # 0 => thr[t].tid # thr[u].tid
    /\ {thr[t].tid : t \in Threads} \ {0} = {idlog[i] : i \in DOMAIN idlog}

\* two creations under way on two processors, both with their id assigned
C3_Witness ==
    /\ Len(idlog) >= 2
    /\ \E x, y \in Ctx :
          /\ x # y
          /\ Running(x) /\ Running(y)
          /\ lv[x].op \in {"thread_init", "thread_create"}
          /\ lv[y].op \in {"thread_init", "thread_create"}
          /\ thr[lv[x].thrd].tid # 0
          /\ thr[lv[y].thrd].tid # 0

\* C4: when alloc_new_thread has returned, the new thread is INITIAL with
\* block reason NOTHING; when thread_init / thread_create returns, the thread
\* is READY, not killed, and the last element of its process's thread table.
C4_CreatePostconditions ==
    [][\A x \in Ctx :
          /\ pc[x] = "alloc_unlock" /\ pc'[x] = "ready_lock" =>
                /\ thr'[lv[x].thrd].state_t = "INITIAL"
                /\ thr'[lv[x].thrd].block_t = "NOTHING"
          /\ pc[x] = "push_store" /\ pc'[x] = "idle" =>
                /\ thr'[lv[x].thrd].state_t = "READY"
                /\ ~thr'[lv[x].thrd].killed
                /\ ttable'[lv[x].proc].length > 0
                /\ ttable'[lv[x].proc].data[ttable'[lv[x].proc].length - 1]
                       = lv[x].thrd]_vars

\* C5: a process's return code is written at most once, and only by the exit
\* of the thread at index 0 of its thread table, which stores the low byte
\* of the return value.
C5_ReturnCodeOnce ==
    [][\A p \in Procs :
          /\ rc_writes'[p] =< 1
          /\ rc_writes'[p] # rc_writes[p] \/ return_code'[p] # return_code[p] =>
                \E x \in Threads :
                    /\ pc[x] = "exit_main" /\ StepOf(x)
                    /\ thr[x].owner = p
                    /\ ttable[p].data[0] = x
                    /\ return_code'[p] = thr[x].return_val % 256]_vars

\* C6: no step of thread_exit by a thread that is not at index 0 of its
\* process's thread table changes the return code or tears the process down.
C6_NonMainExitFrame ==
    [][\A x \in Threads :
          /\ StepOf(x)
          /\ lv[x].op = "thread_exit" \/ lv'[x].op = "thread_exit"
          /\ ttable[thr[x].owner].data[0] # x
          => /\ return_code' = return_code
             /\ torn_down' = torn_down
             /\ rc_writes' = rc_writes]_vars

\* a thread that is in the thread table, but not at index 0, has exited
C6_Witness ==
    \E x \in Threads :
        /\ x \in Visible
        /\ ttable[thr[x].owner].data[0] # x
        /\ thr[x].state_t = "TERMINATED"
        /\ thr[x].return_val # 0
        /\ ~Running(x)
        /\ rc_writes[thr[x].owner] = 0

\* C7: a thread_unblock that follows a thread_block(r) of the thread (the
\* thread had yielded, and has not called thread_block again since) leaves
\* the thread READY with block reason NOTHING, whatever r is; no step of
\* thread_unblock changes which thread a processor runs.
C7_BlockThenUnblock ==
    [][\A x \in Ctx :
          /\ pc[x] = "unblock_state" /\ pc'[x] = "idle" =>
                /\ thr'[lv[x].thrd].state_t = "READY"
                /\ lv[x].clean => thr'[lv[x].thrd].block_t = "NOTHING"
                /\ cur' = cur
          /\ pc[x] = "idle" /\ pc'[x] = "unblock_state" => cur' = cur]_vars

\* a thread that blocked with a reason and yielded has been unblocked by a
\* call that has returned
C7_Witness ==
    \E x \in Ctx :
        /\ pc[x] = "idle"
        /\ lv[x].op = "thread_unblock"
        /\ lv[x].clean
        /\ lv[x].reason \in Reasons
        /\ thr[lv[x].thrd].state_t = "READY"
        /\ thr[lv[x].thrd].block_t = "NOTHING"

\* C8: thread_sleep(n) sets the wake tick to the tick it read plus n; unless
\* a thread_unblock interferes with the call, the thread yields BLOCKED with
\* reason ON_SLEEP and that wake tick; and the lifecycle state of a BLOCKED
\* thread changes to READY and to nothing else.
C8_SleepThenWake ==
    [][/\ \A x \in Threads :
            /\ pc[x] = "idle" /\ lv'[x].op = "thread_sleep" =>
                  /\ lv'[x].tick = timer_tick
                  /\ thr'[x].target_tick = timer_tick + lv'[x].val
            /\ pc[x] = "block_yield" /\ pc'[x] = "sleep_unlock" /\ lv[x].clean =>
                  /\ thr'[x].state_t = "BLOCKED"
                  /\ thr'[x].block_t = "ON_SLEEP"
                  /\ thr'[x].target_tick = lv[x].tick + lv[x].val
       /\ \A t \in Threads :
            thr[t].state_t = "BLOCKED" /\ thr'[t].state_t # "BLOCKED" =>
                thr'[t].state_t = "READY"]_vars

\* a thread that slept, whose wake tick has elapsed, is READY again and will
\* resume inside thread_sleep
C8_Witness ==
    \E t \in Threads :
        /\ pc[t] = "sleep_unlock"
        /\ thr[t].target_tick > 0
        /\ thr[t].target_tick =< timer_tick
        /\ thr[t].state_t = "READY"
        /\ thr[t].block_t = "NOTHING"

(***************************************************************************)
(* Claims about the PCI code, checked under SpecPci.                       *)
(***************************************************************************)
\* v truncated to n bytes (n = 4 keeps v: the values are 32-bit)
Trunc(v, n) == IF n >= 4 THEN v ELSE v % Pow256(n)

\* the call resolves to a device under the selected strategy: the legacy
\* strategy resolves every call, the memory-mapped one a call whose segment
\* and bus match an entry
Resolves(call) ==
    \/ internal_read = "legacy"
    \/ \E i \in DOMAIN mcfg_entries :
          McfgMatch(mcfg_entries[i], call.dev[1], call.dev[2])

SameTarget(a, b) == a.dev = b.dev /\ a.offset = b.offset /\ a.size = b.size

BadSize(n) == n \notin {1, 2, 4}

\* a diagnostic was printed
Diagnosed(log) == log # <<>>

\* C9: a pci_read that directly follows a pci_write of v with the same
\* (segment, bus, slot, function, offset) and size in {1, 2, 4}, resolving
\* to a device, returns v truncated to the size.
C9_WriteThenRead ==
    /\ pci_call.op = "read"
    /\ pci_prev.op = "write"
    /\ SameTarget(pci_call, pci_prev)
    /\ ~BadSize(pci_call.size)
    /\ Resolves(pci_call)
    => pci_ret = Trunc(pci_prev.value, pci_call.size)

\* C10 as stated: a pci_read with a size other than 1, 2, 4 returns 0 and
\* records a diagnostic; a pci_write with such a size records a diagnostic
\* and changes no port and no memory state.
C10_BadSizeNoOp ==
    [][pci_calls' = pci_calls + 1 /\ BadSize(pci_call'.size) =>
          /\ Diagnosed(pci_log')
          /\ pci_call'.op = "read" => pci_ret' = 0
          /\ pci_call'.op = "write" =>
                /\ cf8' = cf8
                /\ cfgspace' = cfgspace
                /\ mem' = mem]_vars

\* C10 as the code has it: a pci_read with a size other than 1, 2, 4 returns
\* 0 and records a diagnostic; a pci_write with such a size records a
\* diagnostic and stores no data, neither in memory nor through the data
\* port; under the legacy strategy it still writes the address word of its
\* arguments to the configuration-address port, under the memory-mapped
\* strategy it touches no port.
C10_BadSizeNoData ==
    [][pci_calls' = pci_calls + 1 /\ BadSize(pci_call'.size) =>
          /\ Diagnosed(pci_log')
          /\ pci_call'.op = "read" => pci_ret' = 0
          /\ pci_call'.op = "write" =>
                /\ cfgspace' = cfgspace
                /\ mem' = mem
                /\ \A i \in DOMAIN pci_acc' : pci_acc'[i].at = PortAddr
                /\ IF internal_write = "legacy"
                   THEN cf8' = make_pci_address(pci_call'.dev[2], pci_call'.dev[3],
                                                pci_call'.dev[4], pci_call'.offset)
                   ELSE cf8' = cf8]_vars

\* a legacy pci_write with size 3 has returned: the address port holds its
\* address word, a diagnostic is recorded, no data was stored
C10_Witness ==
    /\ internal_write = "legacy"
    /\ pci_call.op = "write"
    /\ BadSize(pci_call.size)
    /\ pci_prev.op = "none"
    /\ Diagnosed(pci_log)
    /\ cf8.enable = 1
    /\ cfgspace = <<>>

\* no entry of the table has the call's segment and a bus range (inclusive)
\* that holds the call's bus
NoEntryFor(call) ==
    \A i \in DOMAIN mcfg_entries :
        \/ mcfg_entries[i].seg # call.dev[1]
        \/ call.dev[2] < mcfg_entries[i].start_bus_number
        \/ call.dev[2] > mcfg_entries[i].end_bus_number

\* C11: under the memory-mapped strategy a pci_read or pci_write whose
\* (segment, bus) matches no entry of the table makes no memory and no port
\* access, prints the "nonexistent device" diagnostic, and the read returns 0.
C11_NoEntryNoAccess ==
    [][/\ pci_calls' = pci_calls + 1
       /\ internal_read = "mcfg"
       /\ NoEntryFor(pci_call')
       => /\ pci_acc' = <<>>
          /\ mem' = mem
          /\ cfgspace' = cfgspace
          /\ cf8' = cf8
          /\ pci_call'.op = "read" =>
                /\ pci_ret' = 0
                /\ \E i \in DOMAIN pci_log' :
                      pci_log'[i] = "read from nonexistent device"
          /\ pci_call'.op = "write" =>
                \E i \in DOMAIN pci_log' :
                    pci_log'[i] = "write to nonexistent device"]_vars

\* with entries loaded, a read and then a write to a (segment, bus) that no
\* entry matches have returned
C11_Witness ==
    /\ internal_read = "mcfg"
    /\ mcfg_entries # <<>>
    /\ pci_prev.op = "read"
    /\ NoEntryFor(pci_prev)
    /\ pci_call.op = "write"
    /\ NoEntryFor(pci_call)
    /\ pci_call.size \in {1, 2, 4}
    /\ pci_log = <<"write to nonexistent device">>
    /\ mem = <<>>

\* C12: pci_init selects the legacy strategy for reads and writes when the
\* MCFG table is absent or holds no entry, and otherwise loads every entry of
\* the table in firmware order and selects the memory-mapped strategy for
\* both; once selected, no pci_read / pci_write changes the strategy or the
\* entry table.
C12_StrategyFixed ==
    [][/\ internal_read' # "unset" =>
            /\ internal_write' = internal_read'
            /\ IF ~acpi_mcfg'.present \/ acpi_mcfg'.entries = <<>>
               THEN internal_read' = "legacy"
               ELSE /\ internal_read' = "mcfg"
                    /\ mcfg_entries' = acpi_mcfg'.entries
       /\ internal_read # "unset" =>
            /\ internal_read' = internal_read
            /\ internal_write' = internal_write
            /\ mcfg_entries' = mcfg_entries]_vars

\* a table of two entries was loaded, and a pci_write that stored and a
\* pci_read have returned since
C12_Witness ==
    /\ internal_read = "mcfg"
    /\ internal_write = "mcfg"
    /\ Len(mcfg_entries) = 2
    /\ pci_prev.op = "write"
    /\ pci_call.op = "read"
    /\ mem # <<>>

(***************************************************************************)
(* Further claims about the thread code, checked under Spec.               *)
(***************************************************************************)
\* C13: when pmm_allocz fails in alloc_new_thread the system halts with the
\* shared state as it was: no id is consumed, nothing is mapped into the
\* process's address space, no thread becomes READY and no thread table
\* changes.
C13_AllocFailureHalts ==
    [][\A x \in Ctx :
          StepOf(x) /\ pc[x] = "idle" /\ lv'[x].op \in {"thread_init", "thread_create"}
              /\ pmm_pool = {}
          => /\ halted'
             /\ nextid' = nextid
             /\ idlog' = idlog
             /\ pagemap' = pagemap
             /\ ttable' = ttable
             /\ \A t \in Threads :
                   thr'[t].state_t = "READY" => thr[t].state_t = "READY"]_vars

\* the thread can still execute: it is on a processor, or it is in a state
\* from which it runs or will run
CanExecute(t) ==
    \/ Running(t)
    \/ thr[t].state_t \in {"INITIAL", "READY", "RUNNING", "BLOCKED"}

\* C14: a kernel stack is exclusively owned: the stack of a thread that can
\* still execute is not free for allocation, and no two threads that can
\* still execute hold the same stack.
C14_StackExclusive ==
    \A t \in Threads :
        CanExecute(t) /\ thr[t].tstack # 0 =>
            /\ thr[t].tstack \notin pmm_pool
            /\ \A u \in Threads \ {t} :
                  CanExecute(u) => thr[u].tstack # thr[t].tstack

\* C15: each alloc_new_thread that returns has mapped the new stack at the
\* process's cursor and has advanced the cursor past it, so the cursor is
\* strictly increasing and the mappings of earlier stacks stay in place.
C15_CursorAdvances ==
    [][\A x \in Ctx :
          StepOf(x) /\ pc[x] = "idle" /\ pc'[x] = "alloc_unlock" =>
              LET p == lv'[x].proc
                  va == current_top_addr[p]
              IN  /\ \A i \in 0 .. (StackPages - 1) :
                        <<va + i, PhysPage(thr'[lv'[x].thrd].tstack, i)>>
                            \in pagemap'[p]
                  /\ current_top_addr'[p] >= va + StackPages
                  /\ pagemap[p] \subseteq pagemap'[p]]_vars

\* C16: no thread is TERMINATED with a block reason other than NOTHING.
C16_TerminatedNotBlocked ==
    \A t \in Threads :
        thr[t].state_t = "TERMINATED" => thr[t].block_t = "NOTHING"

\* the thread's record is fully initialised
FullyInitialised(t) ==
    /\ thr[t].tid # 0
    /\ thr[t].rip \in EntryAddrs
    /\ thr[t].rdi \in EntryArgs
    /\ ~thr[t].killed
    /\ thr[t].state_t \in {"READY", "RUNNING", "BLOCKED", "TERMINATED"}

\* C17: every thread that an observer finds in a thread table (its pointer
\* stored at an index below the table's length) is fully initialised: id
\* assigned, entry point and argument set, killed flag false, state READY or
\* later.
C17_VisibleInitialised ==
    \A p \in Procs :
        \A i \in 0 .. (ttable[p].length - 1) :
            ttable[p].data[i] \in Threads =>
                FullyInitialised(ttable[p].data[i])

\* a thread of the table runs while another thread, allocated but not yet
\* READY, is on its way into the same table
C17_Witness ==
    \E t \in Visible, x \in Ctx :
        /\ thr[t].state_t = "RUNNING"
        /\ pc[x] = "ready_lock"
        /\ lv[x].proc = thr[t].owner
        /\ lv[x].thrd \notin Visible
        /\ thr[lv[x].thrd].state_t = "INITIAL"

(***************************************************************************)
(* Further claims about the PCI code, checked under SpecPci.               *)
(***************************************************************************)
\* a legacy call with a size of 1, 2 or 4 is made by the step
LegacyCall ==
    /\ pci_calls' = pci_calls + 1
    /\ internal_read = "legacy"
    /\ pci_call'.size \in {1, 2, 4}

\* the address word of the call: enable bit, bus, slot, function and the
\* offset rounded down to a dword
AddressWordOf(call) ==
    [enable |-> 1,
     lo |-> BitOr(BitOr(BitOr(call.dev[2] * 65536, call.dev[3] * 2048),
                        call.dev[4] * 256),
                  call.offset - (call.offset % 4))]

\* the call's accesses are the address word sent to port 0xCF8 and then one
\* data access of the call's size at port 0xCFC + d
LegacyAccesses(call, d) ==
    pci_acc' = <<Access("out", PortAddr, 4),
                 Access(IF call.op = "read" THEN "in" ELSE "out",
                        PortData + d, call.size)>>

\* C18 as stated: the word sent to the configuration-address port has the
\* enable bit set and encodes bus, slot, function and the dword-aligned
\* offset, and the data access is made at the data port plus
\* offset & (size - 1).
C18_LegacyEncoding ==
    [][LegacyCall =>
          /\ cf8' = AddressWordOf(pci_call')
          /\ LegacyAccesses(pci_call', pci_call'.offset % pci_call'.size)]_vars

\* C18 as the code has it: the same address word, and the data access at the
\* data port plus offset & 3 for size 1, plus offset & 2 for size 2, and at
\* the data port itself for size 4.
C18_LegacyEncodingByteLane ==
    [][LegacyCall =>
          /\ cf8' = AddressWordOf(pci_call')
          /\ LegacyAccesses(pci_call',
                CASE pci_call'.size = 1 -> pci_call'.offset % 4
                  [] pci_call'.size = 2 ->
                         (pci_call'.offset % 4) - (pci_call'.offset % 2)
                  [] pci_call'.size = 4 -> 0)]_vars

\* a legacy write of one byte at offset 7 has returned: the address word has
\* offset 4, the byte went to port 0xCFC + 3
C18_Witness ==
    /\ internal_write = "legacy"
    /\ pci_call.op = "write"
    /\ pci_call.size = 1
    /\ pci_call.offset = 7
    /\ cf8.enable = 1
    /\ cf8.lo % 256 = 4
    /\ Len(pci_acc) = 2
    /\ pci_acc[2].at = PortData + 3

(***************************************************************************)
(* Claims about the thread lock and the thread table, checked under Spec.  *)
(***************************************************************************)
\* C19: no thread that is BLOCKED and off its processor holds the global
\* thread lock.
C19_NoLockWhileBlocked ==
    \A t \in Threads :
        thr[t].state_t = "BLOCKED" /\ ~Running(t) => thread_lock # t

\* a thread_init / thread_create of context x is under way
Creating(x) == pc[x] # "idle" /\ lv[x].op \in {"thread_init", "thread_create"}

\* the threads of process p whose thread_init / thread_create has returned
Created(p) ==
    {t \in Threads :
        /\ thr[t].owner = p
        /\ \A x \in Ctx : Creating(x) => lv[x].thrd # t}

\* C20: every thread whose thread_init / thread_create has returned is in
\* its process's thread table exactly once, and once no creation for the
\* process is under way the table's length is the number of threads created:
\* no append is lost or overwritten.
C20_NoLostAppend ==
    \A p \in Procs :
        /\ \A t \in Created(p) :
              Cardinality({i \in 0 .. (ttable[p].length - 1) :
                              ttable[p].data[i] = t}) = 1
        /\ (\A x \in Ctx : Creating(x) => lv[x].proc # p) =>
              ttable[p].length = Cardinality(Created(p))

====
